---------------------------- MODULE Spec2Model ----------------------------
(***************************************************************************)
(* Spaced-repetition scheduling, word bank, review sessions and error log  *)
(* of the PET English study tool.                                          *)
(*                                                                         *)
(* Numbers.  The ease factor is stored rounded to two decimals, so it is   *)
(* modelled as an integer number of hundredths (2.5 is 250).  The rating   *)
(* is mapped to q = rating * 5 / 3; q is carried as q3 = 3 * q.  Times are *)
(* whole days since the start of the run.                                  *)
(***************************************************************************)
EXTENDS Integers, Sequences, FiniteSets, TLC

VARIABLES
    item,         \* scheduling state of one item driven through sm2Update
    now,          \* the wall clock, in days
    lastCall,     \* the most recent call and its arguments
    app,          \* the front end loaded in the browser tab
    nOps,         \* number of calls so far that write localStorage
    route,        \* React front end: the page shown
    store,        \* localStorage 'pet_word_bank'
    bank,         \* useSpacedRepetition: the hook's state, while Vocab is shown
    wordBankLS,   \* localStorage 'word_bank'
    selectedWord, \* Listening / Reading: the word of the lookup popup
    panelOpen,    \* Reading: the WordBank panel is shown
    words,        \* WordBank: the panel's state
    tab2,         \* a second browser tab: the component shown and its state
    vocabWords,   \* Vocab: the words fetched for the Flashcards tab
    currentIdx,   \* Vocab: position in the fetched words, from 0
    exercise,      \* Grammar: an exercise is shown, with its QuizQuestion
    userAnswers,   \* QuizQuestion: the option chosen for each question
    submitted,     \* QuizQuestion: the answers were submitted
    errorHistory,  \* Grammar: the error history the last render saw
    grammarErrors, \* localStorage 'pet_grammar_errors'
    vpFlashcards,  \* VocabularyPage: flashcards, the due cards loaded
    currentIndex,  \* VocabularyPage: position in the due cards, from 0
    showAnswer,    \* VocabularyPage: the answer and the buttons are shown
    loading,       \* VocabularyPage: the first load has not returned
    inFlight,      \* VocabularyPage: the async calls awaiting the server
    currentUnit,      \* study tool pages: the unit selected
    currentSession,   \* the session selected, 0 when none
    reviewList,       \* localStorage 'pet_review_due'
    errors,           \* localStorage 'pet_errors'
    flashcards,       \* the cards of the review session
    flashcardIdx,     \* position in flashcards, from 0
    flashcardFlipped, \* the card shows its back
    modalHidden,      \* the flashcard modal is hidden
    exercises,        \* app.js: the exercises rendered
    answered,         \* app.js: indexes of the rendered exercises answered
    llmCache,         \* app.js: sessions whose AI flashcards are cached
    aiCall,           \* app.js: the generateAIFlashcards call in flight
    aiAreaHidden      \* app.js: the inline AI flashcard area is hidden

grammarVars ==
    <<exercise, userAnswers, submitted, errorHistory, grammarErrors>>
vocabPageVars ==
    <<vpFlashcards, currentIndex, showAnswer, loading, inFlight>>
servedVars == <<grammarVars, vocabPageVars>>
reactVars ==
    <<route, store, bank, wordBankLS, selectedWord, panelOpen, words, tab2,
      vocabWords, currentIdx, servedVars>>
pageVars ==
    <<currentUnit, currentSession, reviewList, errors, flashcards,
      flashcardIdx, flashcardFlipped, modalHidden, exercises, answered,
      llmCache, aiCall, aiAreaHidden>>
aiPanel == <<aiCall, aiAreaHidden>>
otherVars == <<servedVars, pageVars>>
vars == <<item, now, lastCall, app, nOps, reactVars, pageVars>>

-----------------------------------------------------------------------------
(* Bounds *)

MaxInterval == 40      \* SpecSm2: sm2Update is not applied to a longer interval
MaxOps == 2            \* Spec: number of calls that write localStorage
MaxDay == 1            \* Spec: the clock stops here
MaxCalls == 2          \* SpecVocabularyPage: server calls in flight together

-----------------------------------------------------------------------------
(* SM-2 scheduler: frontend/src/hooks/useSpacedRepetition.js *)

Ratings == 0 .. 3

EaseFloor == 130
DefaultEase == 250

NoState == [present |-> FALSE]

Defaults == [interval |-> 0, repetition |-> 0, easeFactor |-> DefaultEase]

Max(a, b) == IF a >= b THEN a ELSE b

\* Math.round(n / d) for d > 0: the nearest integer, halves rounded up.
\* Math.round(interval * easeFactor) is evaluated in binary floating point;
\* for every interval up to MaxInterval + 5 and every ease factor reachable
\* there, the double product rounds to the same integer as the exact one.
Round(n, d) == (2 * n + d) \div (2 * d)

\* q = rating * 5 / 3, as q3 = 3 * q
q3(rating) == rating * 5

isLapse_forgotOnly(rating) == rating < 1

\* q < 3
isLapse(rating) == q3(rating) < 9

\* 900 * (0.1 - (5 - q) * (0.08 + (5 - q) * 0.02)), with 5 - q = d3 / 3
easeDelta900(rating) ==
    LET d3 == 15 - q3(rating)
    IN  90 - d3 * (24 + 2 * d3)

clampedEase900_noFloor(ease, rating) == ease * 9 + easeDelta900(rating)

\* Math.max(1.3, easeFactor + delta), in units of 1/900
clampedEase900(ease, rating) ==
    Max(EaseFloor * 9, ease * 9 + easeDelta900(rating))

newEase_keptOnLapse(ease, rating) ==
    IF isLapse(rating) THEN ease
    ELSE Round(clampedEase900(ease, rating), 9)

\* Math.round(easeFactor * 100) / 100, in hundredths
newEase(ease, rating) == Round(clampedEase900(ease, rating), 9)

newInterval_countAfter(s, rating) ==
    IF isLapse(rating) THEN 1
    ELSE IF s.repetition = 1 THEN 1
    ELSE IF s.repetition = 2 THEN 6
    ELSE Round(s.interval * s.easeFactor, 100)

newInterval_easeAfter(s, rating) ==
    IF isLapse(rating) THEN 1
    ELSE IF s.repetition = 0 THEN 1
    ELSE IF s.repetition = 1 THEN 6
    ELSE Round(s.interval * newEase(s.easeFactor, rating), 100)

newInterval_keptOnLapse(s, rating) ==
    IF isLapse(rating) THEN Max(s.interval, 1)
    ELSE IF s.repetition = 0 THEN 1
    ELSE IF s.repetition = 1 THEN 6
    ELSE Round(s.interval * s.easeFactor, 100)

newInterval(s, rating) ==
    IF isLapse(rating) THEN 1
    ELSE IF s.repetition = 0 THEN 1
    ELSE IF s.repetition = 1 THEN 6
    ELSE Round(s.interval * s.easeFactor, 100)

newRepetition(s, rating) ==
    IF isLapse(rating) THEN 0 ELSE s.repetition + 1

sm2Update(state, rating, today) ==
    LET s == IF state.present THEN state ELSE Defaults
        interval == newInterval(s, rating)
    IN  [present    |-> TRUE,
         interval   |-> interval,
         repetition |-> newRepetition(s, rating),
         easeFactor |-> newEase(s.easeFactor, rating),
         nextReview |-> today + interval,
         lastReview |-> today]

-----------------------------------------------------------------------------
(* Specification SpecSm2: one item graded again and again *)

NoCall == [op |-> "none"]

NoWord == ""

NoSession == 0

\* no second tab is open
TabClosed == [view |-> "closed", list |-> <<>>]

\* no generateAIFlashcards call is waiting for the content generator
NoAICall == [pending |-> FALSE]

\* The state of the study tool pages after init(): selectUnit(1), an empty
\* localStorage, the modal hidden
PageIdle ==
    /\ currentUnit = 1
    /\ currentSession = NoSession
    /\ reviewList = <<>>
    /\ errors = <<>>
    /\ flashcards = <<>>
    /\ flashcardIdx = 0
    /\ flashcardFlipped = FALSE
    /\ modalHidden = TRUE
    /\ exercises = <<>>
    /\ answered = {}
    /\ llmCache = {}
    /\ aiCall = NoAICall
    /\ aiAreaHidden = TRUE

\* Grammar before an exercise is generated, over an empty error history;
\* VocabularyPage not mounted
ServedIdle ==
    /\ exercise = FALSE
    /\ userAnswers = <<>>
    /\ submitted = FALSE
    /\ errorHistory = <<>>
    /\ grammarErrors = <<>>
    /\ vpFlashcards = <<>>
    /\ currentIndex = 0
    /\ showAnswer = FALSE
    /\ loading = FALSE
    /\ inFlight = <<>>

\* the word bank components before anything is stored
WordBankIdle ==
    /\ route = "home"
    /\ store = <<>>
    /\ bank = <<>>
    /\ wordBankLS = <<>>
    /\ selectedWord = NoWord
    /\ panelOpen = FALSE
    /\ words = <<>>
    /\ tab2 = TabClosed
    /\ vocabWords = <<>>
    /\ currentIdx = 0

ReactIdle == ServedIdle /\ WordBankIdle

InitSm2 ==
    /\ item = NoState
    /\ now = 0
    /\ lastCall = NoCall
    /\ app = "sm2"
    /\ nOps = 0
    /\ ReactIdle
    /\ PageIdle

Grade(rating) ==
    /\ item.present => item.interval <= MaxInterval
    /\ item' = sm2Update(item, rating, now)
    /\ lastCall' = [op |-> "sm2Update", state |-> item, rating |-> rating]
    /\ UNCHANGED <<now, app, nOps, reactVars, pageVars>>

NextSm2 == \E rating \in Ratings : Grade(rating)

SpecSm2 == InitSm2 /\ [][NextSm2]_vars

-----------------------------------------------------------------------------
(* React front end: word bank (useSpacedRepetition.js, Vocab.jsx,           *)
(* Listening.jsx, Reading.jsx, WordBank.jsx, Home)                         *)

Words == {"cat", "Cat"}

InvalidRatings == {4}

Routes == {"home", "vocab", "listening", "reading"}

\* String.prototype.toLowerCase on the words of the model
toLowerCase(w) == IF w = "Cat" THEN "cat" ELSE w

hasWord(list, word) == \E i \in 1 .. Len(list) : list[i].word = word

rateWord_firstMatchOnly(list, word, rating, today) ==
    LET first == CHOOSE i \in 1 .. Len(list) :
                    /\ list[i].word = word
                    /\ \A j \in 1 .. i - 1 : list[j].word # word
    IN  IF hasWord(list, word)
        THEN [list EXCEPT ![first].sm2 = sm2Update(@, rating, today)]
        ELSE Append(list, [word    |-> word,
                           source  |-> "flashcard",
                           addedAt |-> today,
                           sm2     |-> sm2Update(NoState, rating, today)])

rateWord_everyEntry(list, word, rating, today) ==
    LET updated == [i \in 1 .. Len(list) |->
                      [list[i] EXCEPT !.sm2 = sm2Update(@, rating, today)]]
    IN  IF hasWord(updated, word) THEN updated
        ELSE Append(updated, [word    |-> word,
                              source  |-> "flashcard",
                              addedAt |-> today,
                              sm2     |-> sm2Update(NoState, rating, today)])

\* rateWord: the list handed to save(); JSON.stringify / JSON.parse keep
\* every field of an entry (strings, integers, two-decimal numbers, ISO dates)
rateWord(list, word, rating, today) ==
    LET updated == [i \in 1 .. Len(list) |->
                      IF list[i].word # word THEN list[i]
                      ELSE [list[i] EXCEPT !.sm2 = sm2Update(@, rating, today)]]
    IN  IF hasWord(updated, word) THEN updated
        ELSE Append(updated, [word    |-> word,
                              source  |-> "flashcard",
                              addedAt |-> today,
                              sm2     |-> sm2Update(NoState, rating, today)])

isDue_dayEarly(w, today) ==
    ~w.sm2.present \/ w.sm2.nextReview <= today + 1

isDue(w, today) == ~w.sm2.present \/ w.sm2.nextReview <= today

getDueWords(list, today) == SelectSeq(list, LAMBDA w : isDue(w, today))

\* Home: the 'due for review' count
reviewDue(list, today) ==
    Len(SelectSeq(list, LAMBDA w : w.sm2.present /\ w.sm2.nextReview <= today))

removeWord(list, word) == SelectSeq(list, LAMBDA w : w.word # word)

addToWordBank_overwrite(list, word, source, today) ==
    Append(removeWord(list, word), [word    |-> word,
                                    source  |-> source,
                                    addedAt |-> today,
                                    sm2     |-> NoState])

addToWordBank(list, word, source, today) ==
    IF hasWord(list, word) THEN list
    ELSE Append(list, [word    |-> word,
                       source  |-> source,
                       addedAt |-> today,
                       sm2     |-> NoState])

\* A route change unmounts the page shown and mounts the next one; mounting
\* Vocab runs the hook's useState initialiser, which reads localStorage.
Navigate(r) ==
    /\ app = "react"
    /\ r # route
    /\ route' = r
    /\ bank' = IF r = "vocab" THEN store ELSE <<>>
    /\ vocabWords' = <<>>
    /\ currentIdx' = 0
    /\ selectedWord' = NoWord
    /\ panelOpen' = FALSE
    /\ words' = <<>>
    /\ lastCall' = [op |-> "navigate"]
    /\ UNCHANGED <<item, tab2, now, app, nOps, store, wordBankLS, otherVars>>

Min(a, b) == IF a <= b THEN a ELSE b

\* the words /api/vocab/words returns
FetchedWords == <<[word |-> "cat"], [word |-> "Cat"]>>

\* Vocab: fetchWords, from the request to its outcome: the response carries
\* words; fetch or res.json() throws; or the response is JSON without
\* words, as the body of an error status is (fetch resolves on any status)
FetchWords(outcome) ==
    /\ app = "react"
    /\ route = "vocab"
    /\ CASE outcome = "words" -> vocabWords' = FetchedWords /\ currentIdx' = 0
         [] outcome = "noWords" -> vocabWords' = <<>> /\ currentIdx' = 0
         [] OTHER -> UNCHANGED <<vocabWords, currentIdx>>
    /\ lastCall' = [op |-> "fetchWords", ok |-> outcome = "words"]
    /\ UNCHANGED <<item, tab2, now, app, nOps, route, store, bank,
                   wordBankLS, selectedWord, panelOpen, words, otherVars>>

\* Vocab, Flashcards tab: onRate -> rateWord(words[currentIdx].word, rating)
\* -> save, then the next card
RateWord(word, rating) ==
    /\ app = "react"
    /\ route = "vocab"
    /\ currentIdx < Len(vocabWords)
    /\ word = vocabWords[currentIdx + 1].word
    /\ nOps < MaxOps
    /\ bank' = rateWord(bank, word, rating, now)
    /\ store' = bank'
    /\ currentIdx' = Min(currentIdx + 1, Len(vocabWords) - 1)
    /\ nOps' = nOps + 1
    /\ lastCall' = [op |-> "rateWord", word |-> word, rating |-> rating]
    /\ UNCHANGED <<item, tab2, now, app, route, wordBankLS, selectedWord,
                   panelOpen, words, vocabWords, otherVars>>

\* Vocab, Flashcards tab: onNext and onPrev
NextCard(step) ==
    /\ app = "react"
    /\ route = "vocab"
    /\ vocabWords # <<>>
    /\ currentIdx' = Max(0, Min(currentIdx + step, Len(vocabWords) - 1))
    /\ currentIdx' # currentIdx
    /\ lastCall' = [op |-> "setCurrentIdx"]
    /\ UNCHANGED <<item, tab2, now, app, nOps, route, store, bank,
                   wordBankLS, selectedWord, panelOpen, words, vocabWords,
                   otherVars>>

\* Vocab, Review tab: onRate -> rateWord(dueWords[0].word, rating) -> save
RateDueWord(rating) ==
    /\ app = "react"
    /\ route = "vocab"
    /\ getDueWords(bank, now) # <<>>
    /\ nOps < MaxOps
    /\ LET word == getDueWords(bank, now)[1].word
       IN  /\ bank' = rateWord(bank, word, rating, now)
           /\ lastCall' = [op |-> "rateWord", word |-> word,
                           rating |-> rating, due |-> getDueWords(bank, now)]
    /\ store' = bank'
    /\ nOps' = nOps + 1
    /\ UNCHANGED <<item, tab2, now, app, route, wordBankLS, selectedWord,
                   panelOpen, words, vocabWords, currentIdx, otherVars>>

\* Listening: handleWordClick lower-cases the word
ListeningWordClick(tok) ==
    /\ app = "react"
    /\ route = "listening"
    /\ selectedWord = NoWord
    /\ selectedWord' = toLowerCase(tok)
    /\ lastCall' = [op |-> "handleWordClick"]
    /\ UNCHANGED <<item, tab2, now, app, nOps, route, store, bank, wordBankLS,
                   panelOpen, words, vocabWords, currentIdx, otherVars>>

\* Reading: handleWordClick keeps the word as written
ReadingWordClick(tok) ==
    /\ app = "react"
    /\ route = "reading"
    /\ selectedWord = NoWord
    /\ selectedWord' = tok
    /\ lastCall' = [op |-> "handleWordClick"]
    /\ UNCHANGED <<item, tab2, now, app, nOps, route, store, bank, wordBankLS,
                   panelOpen, words, vocabWords, currentIdx, otherVars>>

\* Listening: addToWordBank
ListeningAddToWordBank ==
    /\ app = "react"
    /\ route = "listening"
    /\ selectedWord # NoWord
    /\ nOps < MaxOps
    /\ nOps' = nOps + 1
    /\ wordBankLS' = addToWordBank(wordBankLS, selectedWord, "listening", now)
    /\ selectedWord' = NoWord
    /\ lastCall' = [op |-> "addToWordBank", word |-> selectedWord,
                    source |-> "listening"]
    /\ UNCHANGED <<item, tab2, now, app, route, store, bank, panelOpen, words,
                   vocabWords, currentIdx, otherVars>>

\* Reading: the popup's 'Add to Word Bank' button
ReadingAddToWordBank ==
    /\ app = "react"
    /\ route = "reading"
    /\ selectedWord # NoWord
    /\ nOps < MaxOps
    /\ nOps' = nOps + 1
    /\ wordBankLS' = addToWordBank(wordBankLS, selectedWord, "reading", now)
    /\ selectedWord' = NoWord
    /\ lastCall' = [op |-> "addToWordBank", word |-> selectedWord,
                    source |-> "reading"]
    /\ UNCHANGED <<item, tab2, now, app, route, store, bank, panelOpen, words,
                   vocabWords, currentIdx, otherVars>>

\* Reading: the 'W' button mounts or unmounts the WordBank panel; its effect
\* loads localStorage 'pet_word_bank' on mount
ToggleWordBank ==
    /\ app = "react"
    /\ route = "reading"
    /\ selectedWord = NoWord
    /\ panelOpen' = ~panelOpen
    /\ words' = IF panelOpen THEN <<>> ELSE store
    /\ lastCall' = [op |-> "toggleWordBank"]
    /\ UNCHANGED <<item, tab2, now, app, nOps, route, store, bank, wordBankLS,
                   selectedWord, vocabWords, currentIdx, otherVars>>

\* WordBank: removeWord
RemoveWord(word) ==
    /\ app = "react"
    /\ panelOpen
    /\ hasWord(words, word)
    /\ nOps < MaxOps
    /\ nOps' = nOps + 1
    /\ words' = removeWord(words, word)
    /\ store' = words'
    /\ lastCall' = [op |-> "removeWord", word |-> word]
    /\ UNCHANGED <<item, tab2, now, app, route, bank, wordBankLS, selectedWord,
                   panelOpen, vocabWords, currentIdx, otherVars>>

\* A day passes.  On the study tool pages the clock is read only by the
\* calls counted in nOps, to stamp what they store: it starts with the
\* first of them (days before it shift every stored time alike) and stops
\* with the last
Tick ==
    /\ app # "sm2"
    /\ now < MaxDay
    /\ app \in {"legacy", "static"} => (0 < nOps /\ nOps < MaxOps)
    /\ now' = now + 1
    /\ lastCall' = [op |-> "tick"]
    /\ UNCHANGED <<item, app, nOps, reactVars, pageVars>>

\* The second tab mounts Vocab (the hook's useState initialiser) or the
\* WordBank panel of Reading (its effect): each reads localStorage
\* 'pet_word_bank' into its own state
Tab2Open(view) ==
    /\ app = "react"
    /\ tab2.view = "closed"
    /\ tab2' = [view |-> view, list |-> store]
    /\ lastCall' = [op |-> "open", tab |-> 2]
    /\ UNCHANGED <<item, now, app, nOps, route, store, bank, wordBankLS,
                   selectedWord, panelOpen, words, vocabWords, currentIdx,
                   otherVars>>

\* The second tab is closed
Tab2Close ==
    /\ app = "react"
    /\ tab2.view # "closed"
    /\ tab2' = TabClosed
    /\ lastCall' = [op |-> "close", tab |-> 2]
    /\ UNCHANGED <<item, now, app, nOps, route, store, bank, wordBankLS,
                   selectedWord, panelOpen, words, vocabWords, currentIdx,
                   otherVars>>

\* Vocab in the second tab: rateWord -> save
Tab2RateWord(word, rating) ==
    /\ app = "react"
    /\ tab2.view = "vocab"
    /\ nOps < MaxOps
    /\ tab2' = [tab2 EXCEPT !.list = rateWord(@, word, rating, now)]
    /\ store' = tab2'.list
    /\ nOps' = nOps + 1
    /\ lastCall' = [op |-> "rateWord", word |-> word, rating |-> rating,
                    tab |-> 2]
    /\ UNCHANGED <<item, now, app, route, bank, wordBankLS, selectedWord,
                   panelOpen, words, vocabWords, currentIdx, otherVars>>

\* WordBank in the second tab: removeWord
Tab2RemoveWord(word) ==
    /\ app = "react"
    /\ tab2.view = "wordbank"
    /\ hasWord(tab2.list, word)
    /\ nOps < MaxOps
    /\ tab2' = [tab2 EXCEPT !.list = removeWord(@, word)]
    /\ store' = tab2'.list
    /\ nOps' = nOps + 1
    /\ lastCall' = [op |-> "removeWord", word |-> word, tab |-> 2]
    /\ UNCHANGED <<item, now, app, route, bank, wordBankLS, selectedWord,
                   panelOpen, words, vocabWords, currentIdx, otherVars>>

-----------------------------------------------------------------------------
(* Study tool pages: the first version of the page script ("legacy") and   *)
(* js/app.js ("static").  Both keep the review list and the error log in   *)
(* localStorage and run review sessions in the flashcard modal.            *)

Pages == {"legacy", "static"}

UnitIds == {1, 2}

\* data/units.json: the sessions of each unit with their key words
units ==
    [u \in UnitIds |->
        CASE u = 1 -> <<[id |-> 1, keyWords |-> <<"cat", "Cat">>],
                        [id |-> 2, keyWords |-> <<"cat">>]>>
          [] OTHER -> <<[id |-> 1, keyWords |-> <<>>]>>]

SessionIds(u) == {units[u][k].id : k \in 1 .. Len(units[u])}

getSession(u, id) ==
    CHOOSE sess \in {units[u][k] : k \in 1 .. Len(units[u])} : sess.id = id

\* addToReview: the list stored afterwards
addToReview(list, word, unitId, sessionId, today) ==
    IF hasWord(list, word) THEN list
    ELSE Append(list, [word |-> word, unitId |-> unitId,
                       sessionId |-> sessionId, added |-> today])

RECURSIVE keywordCards(_, _, _)
\* startReview: the cards pushed for the key words kws of one session, after
\* the cards in list
keywordCards(list, kws, ctx) ==
    IF kws = <<>> THEN list
    ELSE keywordCards(
            IF hasWord(list, Head(kws)) THEN list
            ELSE Append(list, [word |-> Head(kws), unitId |-> ctx[1],
                               sessionId |-> ctx[2]]),
            Tail(kws), ctx)

RECURSIVE sessionCards(_, _, _)
sessionCards(list, sessions, unit) ==
    IF sessions = <<>> THEN list
    ELSE sessionCards(
            keywordCards(list, Head(sessions).keyWords,
                         <<unit, Head(sessions).id>>),
            Tail(sessions), unit)

fallbackList_lastSessionOnly(unit) ==
    sessionCards(<<>>, <<units[unit][Len(units[unit])]>>, unit)

\* startReview: the list built from the current unit's key words
fallbackList(unit) == sessionCards(<<>>, units[unit], unit)

scopedList_ignoreScope(list, scope, unit) == list

\* startReview: the stored list narrowed by scope; String(unitId) is
\* compared with String(currentUnit)
scopedList(list, scope, unit) ==
    IF scope = "unit" THEN SelectSeq(list, LAMBDA r : r.unitId = unit)
    ELSE list

swap_overwrite(list, a, b) == [list EXCEPT ![a] = list[b]]

swap(list, a, b) == [list EXCEPT ![a] = list[b], ![b] = list[a]]

RECURSIVE shuffles(_, _)
\* startReview: the Fisher-Yates loop from position k down, every outcome of
\* Math.random (positions count from 1 here)
shuffles(list, k) ==
    IF k <= 1 THEN {list}
    ELSE UNION {shuffles(swap(list, k, r), k - 1) : r \in 1 .. k}

sessionOver_lastCard(idx, cards) == idx >= Len(cards) - 1

\* showFlashcard: no card is left at position idx, closeFlashcard is called
sessionOver(idx, cards) == idx >= Len(cards)

errKey(card) == <<card.word, card.unitId, card.sessionId>>

\* recordError of the legacy page: the list handed to saveErrors
recordError(list, card, today) ==
    IF hasWord(list, card.word)
    THEN LET k == CHOOSE n \in 1 .. Len(list) :
                    /\ list[n].word = card.word
                    /\ \A m \in 1 .. n - 1 : list[m].word # card.word
         IN  [list EXCEPT ![k].count = @ + 1, ![k].lastTime = today]
    ELSE Append(list, [word |-> card.word, unitId |-> card.unitId,
                       sessionId |-> card.sessionId, count |-> 1,
                       lastTime |-> today])

\* recordExerciseError of app.js: the list handed to saveErrors; the other
\* fields of the record are copied from the question
recordExerciseError(list, question, sessionTitle, today) ==
    Append(list, [id |-> today, question |-> question,
                  session |-> sessionTitle, time |-> today])

\* the exercises the content generator returns for a session
ExerciseQuestions == <<"q1">>

SelectUnit(u) ==
    /\ app \in Pages
    /\ modalHidden
    /\ u # currentUnit
    /\ currentUnit' = u
    /\ currentSession' = NoSession
    /\ exercises' = <<>>
    /\ answered' = {}
    /\ aiAreaHidden' = TRUE
    /\ lastCall' = [op |-> "selectUnit"]
    /\ UNCHANGED <<item, now, app, nOps, reactVars, llmCache, aiCall,
                   reviewList, errors, flashcards, flashcardIdx,
                   flashcardFlipped, modalHidden>>

\* selectSession; app.js also hides the exercise area
SelectSession(id) ==
    /\ app \in Pages
    /\ modalHidden
    /\ id \in SessionIds(currentUnit)
    /\ id # currentSession
    /\ currentSession' = id
    /\ exercises' = <<>>
    /\ answered' = {}
    /\ aiAreaHidden' = TRUE
    /\ lastCall' = [op |-> "selectSession"]
    /\ UNCHANGED <<item, now, app, nOps, reactVars, llmCache, aiCall,
                   currentUnit, reviewList, errors, flashcards, flashcardIdx,
                   flashcardFlipped, modalHidden>>

\* legacy page: a click on a key word tag of the session shown
KeywordClick(k) ==
    /\ app = "legacy"
    /\ modalHidden
    /\ currentSession # NoSession
    /\ nOps < MaxOps
    /\ k \in 1 .. Len(getSession(currentUnit, currentSession).keyWords)
    /\ LET word == getSession(currentUnit, currentSession).keyWords[k]
       IN  /\ reviewList' = addToReview(reviewList, word, currentUnit,
                                        currentSession, now)
           /\ lastCall' = [op |-> "addToReview", word |-> word,
                           unitId |-> currentUnit,
                           sessionId |-> currentSession]
    /\ nOps' = nOps + 1
    /\ UNCHANGED <<item, now, app, reactVars, llmCache, aiPanel, currentUnit,
                   currentSession, errors, flashcards, flashcardIdx,
                   flashcardFlipped, modalHidden, exercises, answered>>

\* startReview, with showFlashcard for the first card
StartReview(scope) ==
    /\ app \in Pages
    /\ modalHidden
    /\ LET scoped == scopedList(reviewList, scope, currentUnit)
           list == IF scoped = <<>> THEN fallbackList(currentUnit) ELSE scoped
       IN  IF list = <<>>
           THEN UNCHANGED <<flashcards, flashcardIdx, flashcardFlipped,
                            modalHidden>>
           ELSE /\ flashcards' \in shuffles(list, Len(list))
                /\ flashcardIdx' = 0
                /\ flashcardFlipped' = FALSE
                /\ modalHidden' = FALSE
    /\ lastCall' = [op |-> "startReview", scope |-> scope,
                    stored |-> reviewList]
    /\ UNCHANGED <<item, now, app, nOps, reactVars, llmCache, aiPanel,
                   currentUnit, currentSession, reviewList, errors, exercises,
                   answered>>

flipCard_revealOnly ==
    /\ flashcardFlipped' = TRUE
    /\ lastCall' = [op |-> "flipCard"]
    /\ UNCHANGED <<item, now, app, nOps, reactVars, llmCache, aiPanel,
                   currentUnit, currentSession, reviewList, errors,
                   flashcards, flashcardIdx, modalHidden, exercises, answered>>

\* flipCard
flipCard ==
    /\ flashcardFlipped' = ~flashcardFlipped
    /\ lastCall' = [op |-> "flipCard"]
    /\ UNCHANGED <<item, now, app, nOps, reactVars, llmCache, aiPanel,
                   currentUnit, currentSession, reviewList, errors,
                   flashcards, flashcardIdx, modalHidden, exercises, answered>>

\* answerCard, with showFlashcard for the next card or closeFlashcard after
\* the last one; only the legacy page records a wrong answer.  With no card
\* at the position, recordError(undefined) throws a TypeError and the
\* handler ends there
answerCard(correct) ==
    LET inRange == flashcardIdx < Len(flashcards)
        records == app = "legacy" /\ ~correct
    IN  IF records /\ ~inRange
        THEN /\ lastCall' = [op |-> "answerCard", correct |-> correct,
                             word |-> NoWord, key |-> <<>>,
                             recorded |-> FALSE, threw |-> TRUE]
             /\ UNCHANGED <<item, now, app, nOps, reactVars, pageVars>>
        ELSE /\ records => nOps < MaxOps
             /\ errors' = IF records
                          THEN recordError(errors,
                                           flashcards[flashcardIdx + 1], now)
                          ELSE errors
             /\ nOps' = IF records THEN nOps + 1 ELSE nOps
             /\ lastCall' =
                  [op |-> "answerCard", correct |-> correct,
                   word |-> IF inRange THEN flashcards[flashcardIdx + 1].word
                            ELSE NoWord,
                   key |-> IF records
                           THEN errKey(flashcards[flashcardIdx + 1])
                           ELSE <<>>,
                   recorded |-> records, threw |-> FALSE]
             /\ flashcardIdx' = flashcardIdx + 1
             /\ IF sessionOver(flashcardIdx', flashcards)
                THEN modalHidden' = TRUE /\ UNCHANGED flashcardFlipped
                ELSE flashcardFlipped' = FALSE /\ UNCHANGED modalHidden
             /\ UNCHANGED <<item, now, app, reactVars, llmCache, aiPanel,
                            currentUnit, currentSession, reviewList,
                            flashcards, exercises, answered>>

closeFlashcard_clearsLog ==
    /\ modalHidden' = TRUE
    /\ errors' = <<>>
    /\ lastCall' = [op |-> "closeFlashcard"]
    /\ UNCHANGED <<item, now, app, nOps, reactVars, llmCache, aiPanel,
                   currentUnit, currentSession, reviewList, flashcards,
                   flashcardIdx, flashcardFlipped, exercises, answered>>

\* closeFlashcard
closeFlashcard ==
    /\ modalHidden' = TRUE
    /\ lastCall' = [op |-> "closeFlashcard"]
    /\ UNCHANGED <<item, now, app, nOps, reactVars, llmCache, aiPanel,
                   currentUnit, currentSession, reviewList, errors,
                   flashcards, flashcardIdx, flashcardFlipped, exercises,
                   answered>>

\* the flip button or the card, shown with the modal
FlipCard ==
    /\ app \in Pages
    /\ ~modalHidden
    /\ flipCard

\* the right and wrong buttons, shown with the modal
AnswerCard(correct) ==
    /\ app \in Pages
    /\ ~modalHidden
    /\ answerCard(correct)

\* the close button or a click on the backdrop, shown with the modal
CloseFlashcard ==
    /\ app \in Pages
    /\ ~modalHidden
    /\ closeFlashcard

\* the keys of the keyboard shortcuts: Space (or Enter), ArrowRight (or j),
\* ArrowLeft (or k), Escape
Keys == {" ", "ArrowRight", "ArrowLeft", "Escape"}

keyAction_noGuard(hidden, key) ==
    CASE key = " " -> "flipCard"
      [] key = "ArrowRight" -> "answerRight"
      [] key = "ArrowLeft" -> "answerWrong"
      [] OTHER -> "closeFlashcard"

\* the keydown handler: what it calls for a key
keyAction(hidden, key) ==
    IF hidden THEN "none"
    ELSE CASE key = " " -> "flipCard"
           [] key = "ArrowRight" -> "answerRight"
           [] key = "ArrowLeft" -> "answerWrong"
           [] OTHER -> "closeFlashcard"

\* a key is pressed
KeyDown(key) ==
    /\ app \in Pages
    /\ LET called == keyAction(modalHidden, key)
       IN  CASE called = "flipCard" -> flipCard
             [] called = "answerRight" -> answerCard(TRUE)
             [] called = "answerWrong" -> answerCard(FALSE)
             [] called = "closeFlashcard" -> closeFlashcard
             [] OTHER -> /\ lastCall' = [op |-> "keydown"]
                         /\ UNCHANGED <<item, now, app, nOps, reactVars,
                                        pageVars>>

\* the 'clear errors' button, confirmed
ClearErrors ==
    /\ app \in Pages
    /\ modalHidden
    /\ errors # <<>>
    /\ nOps < MaxOps
    /\ errors' = <<>>
    /\ nOps' = nOps + 1
    /\ lastCall' = [op |-> "clearErrors"]
    /\ UNCHANGED <<item, now, app, reactVars, llmCache, aiPanel, currentUnit,
                   currentSession, reviewList, flashcards, flashcardIdx,
                   flashcardFlipped, modalHidden, exercises, answered>>

\* app.js: generateExercises up to renderExercises, the questions coming
\* from the cache or from the content generator
GenerateExercises ==
    /\ app = "static"
    /\ modalHidden
    /\ currentSession # NoSession
    /\ exercises' = ExerciseQuestions
    /\ answered' = {}
    /\ lastCall' = [op |-> "generateExercises"]
    /\ UNCHANGED <<item, now, app, nOps, reactVars, llmCache, aiPanel,
                   currentUnit, currentSession, reviewList, errors,
                   flashcards, flashcardIdx, flashcardFlipped, modalHidden>>

\* app.js: checkExerciseAnswer on an option of exercise k
CheckExerciseAnswer(k, isCorrect) ==
    /\ app = "static"
    /\ modalHidden
    /\ k \in 1 .. Len(exercises)
    /\ k \notin answered
    /\ ~isCorrect => nOps < MaxOps
    /\ answered' = answered \cup {k}
    /\ errors' = IF isCorrect THEN errors
                 ELSE recordExerciseError(errors, exercises[k],
                                          <<currentUnit, currentSession>>, now)
    /\ nOps' = IF isCorrect THEN nOps ELSE nOps + 1
    /\ lastCall' = [op |-> "checkExerciseAnswer", correct |-> isCorrect,
                    key |-> <<exercises[k], <<currentUnit, currentSession>>>>,
                    recorded |-> ~isCorrect]
    /\ UNCHANGED <<item, now, app, reactVars, llmCache, aiPanel, currentUnit,
                   currentSession, reviewList, flashcards, flashcardIdx,
                   flashcardFlipped, modalHidden, exercises>>

\* the cards the content generator returns for a session
AICards == <<[word |-> "dog", cn |-> "gou"]>>

\* initInlineFlashcards: the module's flashcards, flashcardIdx and
\* flashcardFlipped are set for the inline cards
initInlineFlashcards(cards) ==
    IF cards = <<>>
    THEN UNCHANGED <<flashcards, flashcardIdx, flashcardFlipped>>
    ELSE /\ flashcards' = cards
         /\ flashcardIdx' = 0
         /\ flashcardFlipped' = FALSE

\* app.js: generateAIFlashcards up to the cached cards or to the await of
\* callLLM; the button is disabled while the call is in flight.  The call
\* is counted in nOps when issued: its cards are written to localStorage
\* by setCachedLLM when they arrive.  A cached entry is used for 7 days,
\* longer than the clock of the model runs
GenerateAIFlashcards ==
    /\ app = "static"
    /\ modalHidden
    /\ currentSession # NoSession
    /\ ~aiCall.pending
    /\ LET cacheKey == <<currentUnit, currentSession>>
       IN  IF cacheKey \in llmCache
           THEN /\ initInlineFlashcards(AICards)
                /\ UNCHANGED <<aiCall, nOps>>
           ELSE /\ nOps < MaxOps
                /\ nOps' = nOps + 1
                /\ aiCall' = [pending |-> TRUE, cacheKey |-> cacheKey]
                /\ UNCHANGED <<flashcards, flashcardIdx, flashcardFlipped>>
    /\ aiAreaHidden' = FALSE
    /\ lastCall' = [op |-> "generateAIFlashcards"]
    /\ UNCHANGED <<item, now, app, reactVars, currentUnit,
                   currentSession, reviewList, errors, modalHidden,
                   exercises, answered, llmCache>>

\* app.js: generateAIFlashcards after the await: the cards are cached and
\* handed to initInlineFlashcards, or callLLM threw and nothing is set
AIFlashcardsArrive(ok) ==
    /\ app = "static"
    /\ aiCall.pending
    /\ aiCall' = NoAICall
    /\ IF ok
       THEN /\ llmCache' = llmCache \cup {aiCall.cacheKey}
            /\ initInlineFlashcards(AICards)
       ELSE UNCHANGED <<llmCache, flashcards, flashcardIdx, flashcardFlipped>>
    /\ lastCall' = [op |-> "initInlineFlashcards", ok |-> ok]
    /\ UNCHANGED <<item, now, app, nOps, reactVars, aiAreaHidden, currentUnit,
                   currentSession, reviewList, errors, modalHidden,
                   exercises, answered>>

\* showInlineFlashcard: the position after its two range corrections
inlineIdx(idx, cards) ==
    LET low == IF idx < 0 THEN 0 ELSE idx
    IN  IF low >= Len(cards) THEN Len(cards) - 1 ELSE low

\* showInlineFlashcard: the card at the corrected position is read and shown
\* front side up
showInlineFlashcard(idx) ==
    /\ flashcardIdx' = inlineIdx(idx, flashcards)
    /\ flashcardFlipped' = FALSE
    /\ lastCall' = [op |-> "showInlineFlashcard",
                    read |-> inlineIdx(idx, flashcards)]

\* app.js: the aiFcPrev button (step -1) and the aiFcNext button (step 1)
\* of the inline flashcard area
InlineStep(step) ==
    /\ app = "static"
    /\ modalHidden
    /\ ~aiAreaHidden
    /\ IF \/ step = -1 /\ flashcardIdx > 0
          \/ step = 1 /\ flashcardIdx < Len(flashcards) - 1
       THEN showInlineFlashcard(flashcardIdx + step)
       ELSE /\ lastCall' = [op |-> "aiFcStep"]
            /\ UNCHANGED <<flashcardIdx, flashcardFlipped>>
    /\ UNCHANGED <<item, now, app, nOps, reactVars, llmCache, aiPanel,
                   currentUnit, currentSession, reviewList, errors,
                   flashcards, modalHidden, exercises, answered>>

\* app.js: flipInlineCard, from the aiFcFlip button or the inline card; the
\* card at flashcardIdx is read without a range check, the flag is toggled
\* before the card's fields are used
InlineFlip ==
    /\ app = "static"
    /\ modalHidden
    /\ ~aiAreaHidden
    /\ IF flashcards = <<>>
       THEN /\ lastCall' = [op |-> "flipInlineCard"]
            /\ UNCHANGED flashcardFlipped
       ELSE /\ flashcardFlipped' = ~flashcardFlipped
            /\ lastCall' = [op |-> "flipInlineCard", read |-> flashcardIdx]
    /\ UNCHANGED <<item, now, app, nOps, reactVars, llmCache, aiPanel,
                   currentUnit, currentSession, reviewList, errors,
                   flashcards, flashcardIdx, modalHidden, exercises, answered>>

-----------------------------------------------------------------------------
(* React front end: Grammar (Grammar.jsx) and its quiz (QuizQuestion.jsx)  *)

\* the questions of an exercise after normalizeQuestion: text and the letter
\* of the right option
Questions ==
    <<[question |-> "q1", answer |-> "A"], [question |-> "q2", answer |-> "B"]>>

Letters == {"A", "B"}

HistoryCap == 50

\* Array.prototype.slice(-n)
lastN(seq, n) ==
    IF Len(seq) <= n THEN seq ELSE SubSeq(seq, Len(seq) - n + 1, Len(seq))

\* Grammar: recordError, the list handed to setErrorHistory and localStorage
recordQuizError(history, question, userAnswer, today) ==
    lastN(Append(history, [question |-> question, userAnswer |-> userAnswer,
                           timestamp |-> today]),
          HistoryCap)

\* submit: the questions answered with another option than the right one,
\* in the order of the forEach
wrongFrom(answers, i) ==
    LET RECURSIVE from(_)
        from(k) ==
            IF k > Len(Questions) THEN <<>>
            ELSE IF k \in DOMAIN answers /\ answers[k] # Questions[k].answer
                 THEN <<k>> \o from(k + 1)
                 ELSE from(k + 1)
    IN  from(i)

RECURSIVE onWrongCalls(_, _, _, _, _)
\* submit: the onWrong calls of one forEach, each recordError working on
\* the errorHistory of the render the handler was created in; the result is
\* what the last call stored
onWrongCalls(stored, seen, answers, wrong, today) ==
    IF wrong = <<>> THEN stored
    ELSE onWrongCalls(recordQuizError(seen, Questions[Head(wrong)].question,
                                      answers[Head(wrong)], today),
                      seen, answers, Tail(wrong), today)

\* generateExercise: the exercise arrives and QuizQuestion mounts, or the
\* fetch fails and nothing is set
GenerateExercise(ok) ==
    /\ app = "grammar"
    /\ ~exercise
    /\ exercise' = ok
    /\ lastCall' = [op |-> "generateExercise", ok |-> ok]
    /\ UNCHANGED <<item, now, app, nOps, route, store, bank, wordBankLS,
                   selectedWord, panelOpen, words, tab2, vocabWords,
                   currentIdx, userAnswers, submitted, errorHistory,
                   grammarErrors, vocabPageVars, pageVars>>

\* QuizQuestion: selectAnswer
SelectAnswer(q, letter) ==
    /\ app = "grammar"
    /\ exercise
    /\ ~submitted
    /\ userAnswers' = [k \in DOMAIN userAnswers \cup {q} |->
                         IF k = q THEN letter ELSE userAnswers[k]]
    /\ userAnswers' # userAnswers
    /\ lastCall' = [op |-> "selectAnswer"]
    /\ UNCHANGED <<item, now, app, nOps, route, store, bank, wordBankLS,
                   selectedWord, panelOpen, words, tab2, vocabWords,
                   currentIdx, exercise, submitted, errorHistory,
                   grammarErrors, vocabPageVars, pageVars>>

\* QuizQuestion: submit, with Grammar's recordError as onWrong; the button is
\* disabled until a question is answered and gone once submitted
Submit ==
    /\ app = "grammar"
    /\ exercise
    /\ ~submitted
    /\ DOMAIN userAnswers # {}
    /\ LET wrong == wrongFrom(userAnswers, 1)
           updated == onWrongCalls(grammarErrors, errorHistory, userAnswers,
                                   wrong, now)
       IN  /\ wrong # <<>> => nOps < MaxOps
           /\ nOps' = IF wrong # <<>> THEN nOps + 1 ELSE nOps
           /\ grammarErrors' = updated
           /\ errorHistory' = IF wrong # <<>> THEN updated ELSE errorHistory
           /\ lastCall' = [op |-> "submit",
                           wrong |-> [k \in 1 .. Len(wrong) |->
                                        [question |->
                                            Questions[wrong[k]].question,
                                         userAnswer |-> userAnswers[wrong[k]],
                                         timestamp |-> now]]]
    /\ submitted' = TRUE
    /\ UNCHANGED <<item, now, app, route, store, bank, wordBankLS,
                   selectedWord, panelOpen, words, tab2, vocabWords,
                   currentIdx, exercise, userAnswers, vocabPageVars,
                   pageVars>>

\* Grammar: the 'New exercise' link; QuizQuestion unmounts with its state
NewExercise ==
    /\ app = "grammar"
    /\ exercise
    /\ exercise' = FALSE
    /\ userAnswers' = <<>>
    /\ submitted' = FALSE
    /\ lastCall' = [op |-> "setExercise"]
    /\ UNCHANGED <<item, now, app, nOps, route, store, bank, wordBankLS,
                   selectedWord, panelOpen, words, tab2, vocabWords,
                   currentIdx, errorHistory, grammarErrors, vocabPageVars,
                   pageVars>>

-----------------------------------------------------------------------------
(* Server-backed front end: VocabularyPage.jsx over services/api           *)

\* what GET /vocabulary/flashcards/due may answer
DueLists ==
    {<<>>, <<[card_id |-> 1]>>, <<[card_id |-> 1], [card_id |-> 2]>>}

\* the quality values of the Hard, Good and Easy buttons
Qualities == {2, 3, 5}

\* the loadFlashcards call of the mount effect, awaiting getDueFlashcards
MountLoad ==
    [step |-> "load", card_id |-> 0, index |-> 0, len |-> 0,
     current |-> FALSE]

removeAt(seq, k) == SubSeq(seq, 1, k - 1) \o SubSeq(seq, k + 1, Len(seq))

\* a card is presented anew: the calls still awaited belong to an earlier
\* presentation
retire(seq) == [k \in 1 .. Len(seq) |-> [seq[k] EXCEPT !.current = FALSE]]

\* loadFlashcards of the mount effect returns: the cards are set, or the
\* call failed and is logged; loading ends either way
LoadReturns(k, ok, data) ==
    /\ app = "vocabularyPage"
    /\ k \in 1 .. Len(inFlight)
    /\ inFlight[k].step = "load"
    /\ vpFlashcards' = IF ok THEN data ELSE vpFlashcards
    /\ loading' = FALSE
    /\ inFlight' = retire(removeAt(inFlight, k))
    /\ lastCall' = [op |-> "loadFlashcards", ok |-> ok]
    /\ UNCHANGED <<item, now, app, nOps, route, store, bank, wordBankLS,
                   selectedWord, panelOpen, words, tab2, vocabWords,
                   currentIdx, grammarVars, currentIndex, showAnswer,
                   pageVars>>

\* the 'Show Answer' button, rendered with a card that hides its answer
ShowAnswer ==
    /\ app = "vocabularyPage"
    /\ ~loading
    /\ currentIndex < Len(vpFlashcards)
    /\ ~showAnswer
    /\ showAnswer' = TRUE
    /\ lastCall' = [op |-> "setShowAnswer"]
    /\ UNCHANGED <<item, now, app, nOps, route, store, bank, wordBankLS,
                   selectedWord, panelOpen, words, tab2, vocabWords,
                   currentIdx, grammarVars, vpFlashcards, currentIndex,
                   loading, inFlight, pageVars>>

\* handleReview up to the await of reviewFlashcard; the Hard, Good and Easy
\* buttons are rendered while the answer is shown, awaited call or not
HandleReview(quality) ==
    /\ app = "vocabularyPage"
    /\ ~loading
    /\ currentIndex < Len(vpFlashcards)
    /\ showAnswer
    /\ Len(inFlight) < MaxCalls
    /\ inFlight' = Append(inFlight,
                          [step |-> "review",
                           card_id |-> vpFlashcards[currentIndex + 1].card_id,
                           index |-> currentIndex,
                           len |-> Len(vpFlashcards),
                           current |-> TRUE])
    /\ lastCall' = [op |-> "reviewFlashcard",
                    card_id |-> vpFlashcards[currentIndex + 1].card_id,
                    quality |-> quality]
    /\ UNCHANGED <<item, now, app, nOps, route, store, bank, wordBankLS,
                   selectedWord, panelOpen, words, tab2, vocabWords,
                   currentIdx, grammarVars, vpFlashcards, currentIndex,
                   showAnswer, loading, pageVars>>

\* handleReview after the await of reviewFlashcard: the call threw and is
\* logged; or the next card is shown; or, after the last card,
\* loadFlashcards is awaited.  currentIndex and flashcards.length are those
\* of the render the handler was created in
ReviewReturns(k, ok) ==
    /\ app = "vocabularyPage"
    /\ k \in 1 .. Len(inFlight)
    /\ inFlight[k].step = "review"
    /\ IF ~ok
       THEN /\ inFlight' = removeAt(inFlight, k)
            /\ UNCHANGED <<currentIndex, showAnswer>>
       ELSE IF inFlight[k].index < inFlight[k].len - 1
       THEN /\ currentIndex' = inFlight[k].index + 1
            /\ showAnswer' = FALSE
            /\ inFlight' = retire(removeAt(inFlight, k))
       ELSE /\ inFlight' = [inFlight EXCEPT ![k].step = "reload"]
            /\ UNCHANGED <<currentIndex, showAnswer>>
    /\ lastCall' = [op |-> "reviewReturned", ok |-> ok]
    /\ UNCHANGED <<item, now, app, nOps, route, store, bank, wordBankLS,
                   selectedWord, panelOpen, words, tab2, vocabWords,
                   currentIdx, grammarVars, vpFlashcards, loading, pageVars>>

\* handleReview after the await of loadFlashcards: the cards are set unless
\* the load failed, and the first card is shown
ReloadReturns(k, ok, data) ==
    /\ app = "vocabularyPage"
    /\ k \in 1 .. Len(inFlight)
    /\ inFlight[k].step = "reload"
    /\ vpFlashcards' = IF ok THEN data ELSE vpFlashcards
    /\ loading' = FALSE
    /\ currentIndex' = 0
    /\ showAnswer' = FALSE
    /\ inFlight' = retire(removeAt(inFlight, k))
    /\ lastCall' = [op |-> "loadFlashcards", ok |-> ok]
    /\ UNCHANGED <<item, now, app, nOps, route, store, bank, wordBankLS,
                   selectedWord, panelOpen, words, tab2, vocabWords,
                   currentIdx, grammarVars, pageVars>>

InitReact ==
    /\ item = NoState
    /\ now = 0
    /\ lastCall = NoCall
    /\ app = "react"
    /\ nOps = 0
    /\ ReactIdle
    /\ PageIdle

InitPages ==
    /\ item = NoState
    /\ now = 0
    /\ lastCall = NoCall
    /\ app \in Pages
    /\ nOps = 0
    /\ ReactIdle
    /\ PageIdle

Init == InitReact \/ InitPages

NextReact ==
    \/ \E r \in Routes : Navigate(r)
    \/ \E outcome \in {"words", "throws", "noWords"} : FetchWords(outcome)
    \/ \E w \in Words, g \in Ratings \cup InvalidRatings : RateWord(w, g)
    \/ \E step \in {-1, 1} : NextCard(step)
    \/ \E g \in Ratings : RateDueWord(g)
    \/ \E w \in Words : ListeningWordClick(w)
    \/ \E w \in Words : ReadingWordClick(w)
    \/ ListeningAddToWordBank
    \/ ReadingAddToWordBank
    \/ ToggleWordBank
    \/ \E w \in Words : RemoveWord(w)
    \/ Tick

NextPages ==
    \/ \E u \in UnitIds : SelectUnit(u)
    \/ \E id \in 1 .. 2 : SelectSession(id)
    \/ \E k \in 1 .. 2 : KeywordClick(k)
    \/ \E scope \in {"all", "unit"} : StartReview(scope)
    \/ FlipCard
    \/ \E correct \in BOOLEAN : AnswerCard(correct)
    \/ CloseFlashcard
    \/ \E key \in Keys : KeyDown(key)
    \/ ClearErrors
    \/ GenerateExercises
    \/ \E isCorrect \in BOOLEAN : CheckExerciseAnswer(1, isCorrect)
    \/ GenerateAIFlashcards
    \/ \E ok \in BOOLEAN : AIFlashcardsArrive(ok)
    \/ Tick

Next == NextReact \/ NextPages

\* Word banks found in localStorage 'pet_word_bank' when the page loads:
\* none, entries as the Listening and Reading pages write them, which carry
\* no sm2 field (getDueWords, the hook's stats and Home all test for it),
\* and two words graded Easy on day 0
StoredBanks ==
    {<<>>,
     <<[word |-> "cat", source |-> "reading", addedAt |-> 0,
        sm2 |-> NoState]>>,
     <<[word |-> "cat", source |-> "listening", addedAt |-> 0,
        sm2 |-> NoState],
       [word |-> "Cat", source |-> "reading", addedAt |-> 0,
        sm2 |-> NoState]>>,
     rateWord(rateWord(<<>>, "cat", 3, 0), "Cat", 3, 0)}

InitStored ==
    /\ item = NoState
    /\ now = 0
    /\ lastCall = NoCall
    /\ app = "react"
    /\ nOps = 0
    /\ route = "home"
    /\ store \in StoredBanks
    /\ bank = <<>>
    /\ wordBankLS = <<>>
    /\ selectedWord = NoWord
    /\ panelOpen = FALSE
    /\ words = <<>>
    /\ tab2 = TabClosed
    /\ vocabWords = <<>>
    /\ currentIdx = 0
    /\ ServedIdle
    /\ PageIdle

\* The React front end over a word bank stored earlier
SpecStored == InitStored /\ [][NextReact]_vars

\* Two tabs on one localStorage: Vocab in the first, Vocab or the WordBank
\* panel in the second
NextTabs ==
    \/ \E r \in {"home", "vocab"} : Navigate(r)
    \/ \E outcome \in {"words", "throws", "noWords"} : FetchWords(outcome)
    \/ \E w \in Words, g \in Ratings : RateWord(w, g)
    \/ \E view \in {"vocab", "wordbank"} : Tab2Open(view)
    \/ Tab2Close
    \/ \E w \in Words, g \in Ratings : Tab2RateWord(w, g)
    \/ \E w \in Words : Tab2RemoveWord(w)
    \/ Tick

SpecTabs == InitReact /\ [][NextTabs]_vars

InitLegacy == InitPages /\ app = "legacy"

NextLegacy ==
    \/ \E u \in UnitIds : SelectUnit(u)
    \/ \E id \in 1 .. 2 : SelectSession(id)
    \/ \E k \in 1 .. 2 : KeywordClick(k)
    \/ \E scope \in {"all", "unit"} : StartReview(scope)
    \/ FlipCard
    \/ \E correct \in BOOLEAN : AnswerCard(correct)
    \/ CloseFlashcard
    \/ \E key \in Keys : KeyDown(key)
    \/ ClearErrors
    \/ Tick

InitInline == InitPages /\ app = "static"

NextInline ==
    \/ \E u \in UnitIds : SelectUnit(u)
    \/ \E id \in 1 .. 2 : SelectSession(id)
    \/ \E scope \in {"all", "unit"} : StartReview(scope)
    \/ FlipCard
    \/ \E correct \in BOOLEAN : AnswerCard(correct)
    \/ CloseFlashcard
    \/ GenerateAIFlashcards
    \/ \E ok \in BOOLEAN : AIFlashcardsArrive(ok)
    \/ \E step \in {-1, 1} : InlineStep(step)
    \/ InlineFlip

\* app.js: review sessions in the modal and the inline AI flashcards, which
\* share flashcards, flashcardIdx and flashcardFlipped
SpecInline == InitInline /\ [][NextInline]_vars

\* an error history of n entries stored by earlier exercises
storedHistory(n) ==
    [k \in 1 .. n |-> [question |-> "q0", userAnswer |-> "A",
                       timestamp |-> 0]]

\* Grammar mounts and reads localStorage 'pet_grammar_errors': nothing, or
\* a history one entry short of the 50 that are kept
InitGrammar ==
    /\ item = NoState
    /\ now = 0
    /\ lastCall = NoCall
    /\ app = "grammar"
    /\ nOps = 0
    /\ WordBankIdle
    /\ PageIdle
    /\ exercise = FALSE
    /\ userAnswers = <<>>
    /\ submitted = FALSE
    /\ grammarErrors \in {<<>>, storedHistory(HistoryCap - 1)}
    /\ errorHistory = grammarErrors
    /\ vpFlashcards = <<>>
    /\ currentIndex = 0
    /\ showAnswer = FALSE
    /\ loading = FALSE
    /\ inFlight = <<>>

NextGrammar ==
    \/ \E ok \in BOOLEAN : GenerateExercise(ok)
    \/ \E q \in 1 .. Len(Questions), letter \in Letters :
          SelectAnswer(q, letter)
    \/ Submit
    \/ NewExercise
    \/ Tick

\* The Grammar page of the React front end
SpecGrammar == InitGrammar /\ [][NextGrammar]_vars

\* VocabularyPage mounts: no cards yet, the effect's loadFlashcards awaited
InitVocabularyPage ==
    /\ item = NoState
    /\ now = 0
    /\ lastCall = NoCall
    /\ app = "vocabularyPage"
    /\ nOps = 0
    /\ WordBankIdle
    /\ PageIdle
    /\ exercise = FALSE
    /\ userAnswers = <<>>
    /\ submitted = FALSE
    /\ errorHistory = <<>>
    /\ grammarErrors = <<>>
    /\ vpFlashcards = <<>>
    /\ currentIndex = 0
    /\ showAnswer = FALSE
    /\ loading = TRUE
    /\ inFlight = <<MountLoad>>

NextVocabularyPage ==
    \/ \E k \in 1 .. MaxCalls, ok \in BOOLEAN, data \in DueLists :
          LoadReturns(k, ok, data)
    \/ ShowAnswer
    \/ \E quality \in Qualities : HandleReview(quality)
    \/ \E k \in 1 .. MaxCalls, ok \in BOOLEAN : ReviewReturns(k, ok)
    \/ \E k \in 1 .. MaxCalls, ok \in BOOLEAN, data \in DueLists :
          ReloadReturns(k, ok, data)

\* The vocabulary page of the server-backed front end
SpecVocabularyPage == InitVocabularyPage /\ [][NextVocabularyPage]_vars

\* The legacy page
SpecLegacy == InitLegacy /\ [][NextLegacy]_vars

\* The React front end
SpecReact == InitReact /\ [][NextReact]_vars

\* The study tool pages, legacy or static
SpecPages == InitPages /\ [][NextPages]_vars

\* Any of the front ends
Spec == Init /\ [][Next]_vars

-----------------------------------------------------------------------------
(* Properties of the scheduler, checked under SpecSm2 *)

Graded == lastCall.op = "sm2Update"
Success == Graded /\ lastCall.rating \in {2, 3}
Lapse == Graded /\ lastCall.rating \in {0, 1}

\* C1: after every grade of every sequence of grades 0..3 applied to a fresh
\* item, the stored ease factor (clamped, rounded to 2 decimals) is >= 1.3.
EaseNeverBelowFloor == item.present => item.easeFactor >= EaseFloor

\* C1 witness: a grade whose unclamped result is below 1.3 was clamped.
EaseClampedAtFloor ==
    /\ Graded /\ lastCall.state.present
    /\ lastCall.state.easeFactor * 9 + easeDelta900(lastCall.rating)
         < EaseFloor * 9
    /\ item.easeFactor = EaseFloor

\* C2: grading Forgot or Fuzzy on a state with repetition > 0 yields
\* repetition 0 and interval 1, whatever the streak, interval and ease were.
LapseResetsRepetition ==
    (Lapse /\ lastCall.state.present /\ lastCall.state.repetition > 0)
        => (item.repetition = 0 /\ item.interval = 1)

\* C2 witness: a Fuzzy grade has reset a streak of at least three.
LapseAfterStreak ==
    /\ Lapse /\ lastCall.rating = 1
    /\ lastCall.state.present /\ lastCall.state.repetition >= 3
    /\ lastCall.state.interval > 6
    /\ item.repetition = 0 /\ item.interval = 1

\* C3: Remembered/Easy on an item with no state, or with repetition 0 after a
\* lapse, yields interval 1 and repetition 1; the next consecutive
\* Remembered/Easy yields interval 6 and repetition 2.
FirstAndSecondSuccess ==
    /\ (Success /\ (~lastCall.state.present \/ lastCall.state.repetition = 0))
          => (item.interval = 1 /\ item.repetition = 1)
    /\ (Success /\ lastCall.state.present /\ lastCall.state.repetition = 1)
          => (item.interval = 6 /\ item.repetition = 2)

\* C3 witness: the second success in a row after a lapse (the ease factor at
\* repetition 1 is below anything a lapse-free item can have).
SecondSuccessAfterLapse ==
    /\ Success
    /\ lastCall.state.present /\ lastCall.state.repetition = 1
    /\ lastCall.state.easeFactor < DefaultEase - 30
    /\ item.interval = 6 /\ item.repetition = 2

\* C4: on a state with at least two consecutive successes, Remembered/Easy
\* sets interval to the previous interval times the ease factor stored
\* before the grade, rounded to the nearest integer (halves up); three Easy
\* grades from fresh give round(6 * 2.7) = 16.
ThirdSuccessUsesEase ==
    (Success /\ lastCall.state.present /\ lastCall.state.repetition >= 2)
        => LET product == lastCall.state.interval * lastCall.state.easeFactor
           IN  /\ 100 * item.interval - 50 <= product
               /\ product < 100 * item.interval + 50
               /\ (lastCall.state.repetition = 2
                     /\ lastCall.state.easeFactor = DefaultEase + 20
                     /\ lastCall.rating = 3) => item.interval = 16

\* C4 witness: the third Easy in a row from a fresh item.
ThirdEasyFromFresh ==
    /\ Success /\ lastCall.rating = 3
    /\ lastCall.state.present
    /\ lastCall.state.repetition = 2 /\ lastCall.state.interval = 6
    /\ lastCall.state.easeFactor = DefaultEase + 20
    /\ item.repetition = 3 /\ item.interval = 16
       /\ item.easeFactor = DefaultEase + 30

-----------------------------------------------------------------------------
(* Properties of the word bank, the review list and the error log *)

Range(f) == {f[x] : x \in DOMAIN f}

\* C5: a rating outside 0..3 is rejected before any state mutation: the
\* rateWord call leaves the stored word bank and the hook's bank unchanged.
InvalidGradeRejected ==
    [][(lastCall'.op = "rateWord" /\ lastCall'.rating \notin Ratings)
          => (store' = store /\ bank' = bank)]_vars

\* the number the hook reports as stats.due
statsDue(list, today) == Len(getDueWords(list, today))

UnitKeywords(u) ==
    UNION {Range(units[u][k].keyWords) : k \in 1 .. Len(units[u])}

CardWords == {flashcards[k].word : k \in 1 .. Len(flashcards)}

\* C7: when the stored review list, narrowed by scope, is empty and the unit
\* has key words, startReview builds the session from exactly these key
\* words, each once, and leaves the stored review list as it was.
FallbackSessionIsKeywords ==
    (/\ lastCall.op = "startReview"
     /\ scopedList(lastCall.stored, lastCall.scope, currentUnit) = <<>>
     /\ UnitKeywords(currentUnit) # {})
        => /\ CardWords = UnitKeywords(currentUnit)
           /\ Len(flashcards) = Cardinality(UnitKeywords(currentUnit))
           /\ flashcardIdx = 0 /\ ~modalHidden
           /\ reviewList = lastCall.stored

\* C7 witness: a review started from the key words, shuffled out of their
\* order in the unit.
FallbackSessionStarted ==
    /\ lastCall.op = "startReview"
    /\ reviewList = <<>>
    /\ Len(flashcards) = 2 /\ ~modalHidden
    /\ flashcards[1].word = "Cat" /\ flashcards[2].word = "cat"

\* C8: adding a word that is already stored is a no-op: the stored entry
\* keeps its provenance and creation time, no entry is added, and no
\* scheduling state changes (addToWordBank on 'word_bank', addToReview on
\* the review list).
ReAddIsNoOp ==
    [][/\ (lastCall'.op = "addToWordBank"
             /\ hasWord(wordBankLS, lastCall'.word))
          => (wordBankLS' = wordBankLS /\ store' = store /\ bank' = bank)
       /\ (lastCall'.op = "addToReview"
             /\ hasWord(reviewList, lastCall'.word))
          => (reviewList' = reviewList /\ errors' = errors)]_vars

\* C8 witness: a word added on the Listening page was added again, later,
\* on the Reading page, and is stored once with its first provenance.
ReAddedFromOtherSource ==
    /\ lastCall.op = "addToWordBank" /\ lastCall.source = "reading"
    /\ Len(wordBankLS) = 1
    /\ wordBankLS[1].word = lastCall.word
    /\ wordBankLS[1].source = "listening"
    /\ wordBankLS[1].addedAt < now

NoCaseDuplicatesIn(list) ==
    \A m, n \in 1 .. Len(list) :
        toLowerCase(list[m].word) = toLowerCase(list[n].word) => m = n

\* C9: no store holds two entries whose words differ only in letter case.
NoCaseDuplicates ==
    /\ NoCaseDuplicatesIn(store)
    /\ NoCaseDuplicatesIn(wordBankLS)
    /\ NoCaseDuplicatesIn(reviewList)

\* the item+context key of an error record: word, unit and session on the
\* legacy page; question and session in app.js
recKey(r) ==
    IF app = "legacy" THEN errKey(r) ELSE <<r.question, r.session>>

\* the failures a record stands for; a record of app.js has no count
recCount(r) == IF app = "legacy" THEN r.count ELSE 1

recordsOf(list, key) == {n \in 1 .. Len(list) : recKey(list[n]) = key}

\* C10: recording a failure leaves exactly one record for the item+context
\* key, with the count of the record that was there before plus one, or 1
\* if there was none.
ErrorLogKeyedByItemAndContext ==
    [][(lastCall'.op \in {"answerCard", "checkExerciseAnswer"}
          /\ lastCall'.recorded)
          => LET before == recordsOf(errors, lastCall'.key)
                 after == recordsOf(errors', lastCall'.key)
             IN  /\ Cardinality(after) = 1
                 /\ \A n \in after :
                      recCount(errors'[n]) =
                         IF before = {} THEN 1
                         ELSE recCount(errors[CHOOSE m \in before : TRUE]) + 1
      ]_vars

-----------------------------------------------------------------------------
(* The error listing *)

RECURSIVE insertByCount(_, _)
\* the place Array.prototype.sort, which is stable, gives record r among the
\* records of sorted under (a, b) => b.count - a.count: after every record
\* whose count is not lower
insertByCount(sorted, r) ==
    IF sorted = <<>> THEN <<r>>
    ELSE IF Head(sorted).count >= r.count
         THEN <<Head(sorted)>> \o insertByCount(Tail(sorted), r)
         ELSE <<r>> \o sorted

RECURSIVE renderErrors(_)
\* renderErrors of the legacy page: the records in the order shown
renderErrors(list) ==
    IF list = <<>> THEN <<>>
    ELSE insertByCount(renderErrors(SubSeq(list, 1, Len(list) - 1)),
                       list[Len(list)])

\* renderErrors of app.js: [...list].reverse()
renderErrorsApp(list) == [n \in 1 .. Len(list) |-> list[Len(list) + 1 - n]]

ErrorSummarySize == 10

\* generateReviewExercises of app.js: errors.slice(-10), the records the
\* prompt of the remedial exercises is built from
errorSummary(list) ==
    SubSeq(list, Max(1, Len(list) - ErrorSummarySize + 1), Len(list))

\* the time of the last failure a record stands for
recTime(r) == IF app = "legacy" THEN r.lastTime ELSE r.time

ByFrequencyThenRecency(listing) ==
    \A m, n \in 1 .. Len(listing) :
        m < n => \/ recCount(listing[m]) > recCount(listing[n])
                 \/ /\ recCount(listing[m]) = recCount(listing[n])
                    /\ recTime(listing[m]) >= recTime(listing[n])

\* C11: the error listing is ordered by failure count descending, records
\* with equal counts by most recent failure first, both in the list shown
\* and in the records handed to the generation of remedial exercises.
ErrorListingOrdered ==
    IF app = "legacy"
    THEN ByFrequencyThenRecency(renderErrors(errors))
    ELSE /\ ByFrequencyThenRecency(renderErrorsApp(errors))
         /\ ByFrequencyThenRecency(errorSummary(errors))

-----------------------------------------------------------------------------
(* Frame of rateWord *)

\* C12: rateWord(w, g) changes only the entry of w: every other entry of the
\* word bank, in the hook and in localStorage, is what it was, the entry of
\* w keeps its word, source and creation time, and the bank grows by one
\* entry exactly when w was absent.
RateWordChangesOneEntry ==
    [][lastCall'.op = "rateWord"
          => LET w == lastCall'.word
             IN  /\ store' = bank'
                 /\ Len(store') = Len(store) + (IF hasWord(store, w) THEN 0
                                                ELSE 1)
                 /\ \A n \in 1 .. Len(store) :
                      IF store[n].word # w THEN store'[n] = store[n]
                      ELSE /\ store'[n].word = w
                           /\ store'[n].source = store[n].source
                           /\ store'[n].addedAt = store[n].addedAt
      ]_vars

\* C12 witness: of two words graded Easy, one was graded Forgot and is back
\* at repetition 0, interval 1, while the other still has repetition 1,
\* interval 1.
ForgotResetsOnlyOne ==
    /\ lastCall.op = "rateWord" /\ lastCall.rating = 0
    /\ Len(store) = 2
    /\ \E n, o \in 1 .. 2 :
         /\ store[n].word = lastCall.word
         /\ store[n].sm2.present
         /\ store[n].sm2.repetition = 0 /\ store[n].sm2.interval = 1
         /\ store[o].word # lastCall.word
         /\ store[o].sm2.present
         /\ store[o].sm2.repetition = 1 /\ store[o].sm2.interval = 1

-----------------------------------------------------------------------------
(* Writers of the stored word bank *)

\* the entries a list holds for a word
entriesOf(list, word) ==
    {list[n] : n \in {k \in 1 .. Len(list) : list[k].word = word}}

\* C13: a write on one word by one holder of the bank (rateWord or
\* removeWord, in either tab) keeps what is stored for every other word, so
\* that after writes by two holders on different words the stored bank
\* reflects both.
NoLostUpdate ==
    [][lastCall'.op \in {"rateWord", "removeWord"}
          => \A v \in Words \ {lastCall'.word} :
                entriesOf(store', v) = entriesOf(store, v)]_vars

-----------------------------------------------------------------------------
(* Review sessions *)

\* C14: while a review session is in progress its card list is not changed
\* and its position is changed by nothing but an answer, which advances it
\* by one; the completion of a generateAIFlashcards call issued earlier does
\* not replace the list or reset the position.
SessionChangedByGradingOnly ==
    [][~modalHidden
          => /\ flashcards' = flashcards
             /\ \/ flashcardIdx' = flashcardIdx
                \/ /\ lastCall'.op = "answerCard"
                   /\ flashcardIdx' = flashcardIdx + 1]_vars


\* the positions of the error records kept for a word
wordRecords(list, word) ==
    {n \in 1 .. Len(list) :
        "word" \in DOMAIN list[n] /\ list[n].word = word}

\* C15: a card answered wrong leaves the error log with a record for the
\* card's word whose count is one higher than before, or 1 if there was
\* none; a card answered right leaves the error log unchanged.
WrongAnswerIsRecorded ==
    [][lastCall'.op = "answerCard"
          => IF lastCall'.correct THEN errors' = errors
             ELSE LET before == wordRecords(errors, lastCall'.word)
                      after == wordRecords(errors', lastCall'.word)
                  IN  /\ after # {}
                      /\ \A n \in after :
                           errors'[n].count =
                              IF before = {} THEN 1
                              ELSE errors[CHOOSE m \in before : TRUE].count + 1
      ]_vars


\* C16: an answer advances the position by exactly 1 over an unchanged card
\* list and closes the modal exactly when the position reaches the number
\* of cards; between the answers of a session the position and the cards
\* stay as they are; a session in progress is at a position below the
\* number of cards, and a review that starts is at position 0.  So a
\* session of n cards shows each card once and completes after n answers.
SessionCompletesAfterEachCard ==
    [][/\ lastCall'.op = "answerCard"
          => /\ ~modalHidden
             /\ flashcardIdx' = flashcardIdx + 1
             /\ flashcards' = flashcards
             /\ modalHidden' <=> flashcardIdx' = Len(flashcards)
       /\ (~modalHidden /\ lastCall'.op # "answerCard")
          => (flashcardIdx' = flashcardIdx /\ flashcards' = flashcards)
       /\ ~modalHidden' => flashcardIdx' < Len(flashcards')
       /\ (lastCall'.op = "startReview" /\ ~modalHidden')
          => flashcardIdx' = 0]_vars

\* C16 witness: a session of two cards was completed by its second answer,
\* both cards answered wrong and recorded.
SessionCompleted ==
    /\ lastCall.op = "answerCard"
    /\ modalHidden
    /\ Len(flashcards) = 2 /\ flashcardIdx = 2
    /\ Len(errors) = 2


\* C17: with no review session in progress a grade or reveal request, a
\* keyboard shortcut included, changes nothing: position, flipped flag,
\* cards, error log and review list are what they were and the modal stays
\* hidden; answerCard never throws; the position never exceeds the number
\* of cards.
NoSessionRequestIsNoOp ==
    [][/\ (modalHidden /\ lastCall'.op \in {"keydown", "flipCard",
                                            "answerCard"})
          => /\ flashcardIdx' = flashcardIdx
             /\ flashcardFlipped' = flashcardFlipped
             /\ flashcards' = flashcards
             /\ errors' = errors
             /\ reviewList' = reviewList
             /\ modalHidden'
       /\ lastCall'.op = "answerCard" => ~lastCall'.threw
       /\ flashcardIdx' <= Len(flashcards')]_vars

\* C17 witness: a key was pressed after a session of two cards was
\* completed.
KeyAfterCompletion ==
    /\ lastCall.op = "keydown"
    /\ modalHidden
    /\ Len(flashcards) = 2 /\ flashcardIdx = 2


\* C18: startReview with nothing to review (no stored item in scope and no
\* key word in the current unit) leaves the cards, the position, the
\* flipped flag and the hidden modal as they were; in every other case the
\* modal is shown at position 0 over a non-empty card list.
EmptyStartReviewIsNoOp ==
    [][lastCall'.op = "startReview"
          => LET inScope == {n \in 1 .. Len(reviewList) :
                                \/ lastCall'.scope = "all"
                                \/ reviewList[n].unitId = currentUnit}
             IN  IF inScope = {} /\ UnitKeywords(currentUnit) = {}
                 THEN /\ flashcards' = flashcards
                      /\ flashcardIdx' = flashcardIdx
                      /\ flashcardFlipped' = flashcardFlipped
                      /\ modalHidden' /\ modalHidden
                 ELSE /\ ~modalHidden'
                      /\ flashcardIdx' = 0
                      /\ flashcards' # <<>>]_vars

\* C18 witness: a review of the unit was asked for in a unit without key
\* words while the stored review list holds words of another unit only.
NothingToReview ==
    /\ lastCall.op = "startReview" /\ lastCall.scope = "unit"
    /\ currentUnit = 2
    /\ reviewList # <<>>
    /\ modalHidden


\* C19: closing the flashcard modal at any position stores nothing: the
\* review list and the error log are what they were after the last answer;
\* the error log gains a record or a count only for the card being
\* answered, so no card that was not answered has an error recorded.
AbortPersistsNothing ==
    [][/\ lastCall'.op = "closeFlashcard"
          => /\ reviewList' = reviewList
             /\ errors' = errors
             /\ flashcards' = flashcards
             /\ flashcardIdx' = flashcardIdx
       /\ (~modalHidden /\ errors' # errors)
          => /\ lastCall'.op = "answerCard"
             /\ lastCall'.word = flashcards[flashcardIdx + 1].word
             /\ \A n \in 1 .. Len(errors') :
                  (n > Len(errors) \/ errors'[n] # errors[n])
                     => errors'[n].word = lastCall'.word]_vars

\* C19 witness: a session of two cards was closed after the first card was
\* answered wrong; the error log holds that one record.
AbortedAfterFirstCard ==
    /\ lastCall.op = "closeFlashcard"
    /\ modalHidden
    /\ Len(flashcards) = 2 /\ flashcardIdx = 1
    /\ Len(errors) = 1 /\ errors[1].word = flashcards[1].word

-----------------------------------------------------------------------------
(* Words registered by the Listening and Reading pages *)

\* C20: a word added to the word bank on the Listening or Reading page is
\* part of the word bank that getDueWords, the hook's stats and the
\* WordBank panel read ('pet_word_bank'), and while it has no scheduling
\* state getDueWords returns it.
RegisteredWordReachesSelector ==
    lastCall.op = "addToWordBank"
       => /\ hasWord(store, lastCall.word)
          /\ \A n \in 1 .. Len(store) :
                (store[n].word = lastCall.word /\ ~store[n].sm2.present)
                   => store[n] \in Range(getDueWords(store, now))

-----------------------------------------------------------------------------
(* Unknown words and failed fetches *)

\* C21: grading a word that is not in the word bank mutates nothing: the
\* stored bank and the hook's bank are what they were.
RateAbsentWordMutatesNothing ==
    [][(lastCall'.op = "rateWord" /\ ~hasWord(store, lastCall'.word))
          => (store' = store /\ bank' = bank)]_vars


\* C22: a content call that fails changes nothing: after a failed word
\* fetch of Vocab the word bank, its stored copy and the fetched cards with
\* their position are what they were; after a failed generateAIFlashcards
\* call the review list, the error log, the LLM cache and the card list
\* with its position are what they were.
FailedFetchChangesNothing ==
    [][/\ (lastCall'.op = "fetchWords" /\ ~lastCall'.ok)
          => /\ store' = store /\ bank' = bank
             /\ wordBankLS' = wordBankLS
             /\ vocabWords' = vocabWords
             /\ currentIdx' = currentIdx
       /\ (lastCall'.op = "initInlineFlashcards" /\ ~lastCall'.ok)
          => /\ reviewList' = reviewList /\ errors' = errors
             /\ llmCache' = llmCache
             /\ flashcards' = flashcards
             /\ flashcardIdx' = flashcardIdx]_vars

-----------------------------------------------------------------------------
(* More properties of the scheduler, checked under SpecSm2 *)

\* the ease factor sm2Update started from in the last grade
easeBefore ==
    IF lastCall.state.present THEN lastCall.state.easeFactor ELSE DefaultEase

\* C23: every grade recomputes the ease factor: Easy raises it by exactly
\* 0.10; Forgot, Fuzzy and Remembered never raise it and lower it whenever
\* the result is above the floor of 1.3.
EaseMovesWithGrade ==
    Graded => /\ lastCall.rating = 3 => item.easeFactor = easeBefore + 10
              /\ lastCall.rating \in {0, 1, 2}
                 => /\ item.easeFactor <= easeBefore
                    /\ item.easeFactor > EaseFloor
                       => item.easeFactor < easeBefore

\* C23 witness: a lapse lowered the ease factor of an item with a streak to
\* a value above the floor.
LapseLoweredEase ==
    /\ Lapse
    /\ lastCall.state.present /\ lastCall.state.repetition >= 2
    /\ item.easeFactor < easeBefore
    /\ item.easeFactor > EaseFloor


\* C27: in every state sm2Update reaches from a fresh item by grades 0..3 the
\* interval is at least 1; repetition 0 and repetition 1 go with interval 1
\* and repetition 2 with interval 6; a Remembered/Easy grade never yields an
\* interval smaller than the one it started from.
IntervalTiedToRepetition ==
    item.present
        => /\ item.interval >= 1
           /\ item.repetition \in {0, 1} => item.interval = 1
           /\ item.repetition = 2 => item.interval = 6
           /\ (Success /\ lastCall.state.present)
                 => item.interval >= lastCall.state.interval

\* C27 witness: a success on a long streak at the lowest ease factor still
\* lengthened the interval.
StreakAtFloorGrows ==
    /\ Success
    /\ lastCall.state.present /\ lastCall.state.repetition >= 3
    /\ lastCall.state.easeFactor = EaseFloor
    /\ item.interval > lastCall.state.interval


-----------------------------------------------------------------------------
(* More properties of the React front end *)

\* C24: right after rateWord(w, g) with a grade 0..3 the entry of w has
\* lastReview = now and nextReview = now + interval with interval >= 1, so it
\* is not due; each grading of the first due word in the Review tab leaves one
\* due word fewer, so the due list is used up after as many gradings as it
\* had words.
GradedWordIsNotDue ==
    [][(lastCall'.op = "rateWord" /\ lastCall'.rating \in Ratings)
          => /\ hasWord(bank', lastCall'.word)
             /\ \A i \in 1 .. Len(bank') :
                   bank'[i].word = lastCall'.word
                      => /\ bank'[i].sm2.present
                         /\ bank'[i].sm2.interval >= 1
                         /\ bank'[i].sm2.lastReview = now
                         /\ bank'[i].sm2.nextReview
                               = now + bank'[i].sm2.interval
                         /\ ~isDue(bank'[i], now)
             /\ "due" \in DOMAIN lastCall'
                   => Len(getDueWords(bank', now)) = Len(lastCall'.due) - 1]_vars

\* C24 witness: two words were due, both were graded today, the second from
\* the Review tab, and none is due any more.
ReviewQueueEmptied ==
    /\ route = "vocab"
    /\ lastCall.op = "rateWord" /\ "due" \in DOMAIN lastCall
    /\ Len(lastCall.due) = 1
    /\ Len(bank) = 2
    /\ \A i \in 1 .. 2 : bank[i].sm2.present /\ bank[i].sm2.lastReview = now
    /\ getDueWords(bank, now) = <<>>


-----------------------------------------------------------------------------
(* More properties of the study tool pages *)

\* how often x occurs in the sequence
occurrences(seq, x) == Cardinality({k \in 1 .. Len(seq) : seq[k] = x})

isPermutation(a, b) ==
    /\ Len(a) = Len(b)
    /\ \A x \in Range(a) \cup Range(b) : occurrences(a, x) = occurrences(b, x)

\* the list startReview builds before it shuffles
reviewSource(stored, scope, unit) ==
    IF scopedList(stored, scope, unit) = <<>> THEN fallbackList(unit)
    ELSE scopedList(stored, scope, unit)

\* a list longer than the pages' word lists, with a repeated entry
ThreeCards == <<"cat", "Cat", "cat">>

\* C25: whatever Math.random returns, the card list of a started review is a
\* permutation of the list it was built from: every entry once, none added;
\* the same loop permutes a list of three.
ShuffleIsPermutation ==
    (/\ lastCall.op = "startReview"
     /\ reviewSource(lastCall.stored, lastCall.scope, currentUnit) # <<>>)
        => /\ isPermutation(flashcards,
                            reviewSource(lastCall.stored, lastCall.scope,
                                         currentUnit))
           /\ \A out \in shuffles(ThreeCards, Len(ThreeCards)) :
                 isPermutation(out, ThreeCards)

\* C25 witness: a review of two stored words started in the opposite order.
StoredWordsShuffled ==
    /\ lastCall.op = "startReview"
    /\ Len(lastCall.stored) = 2
    /\ scopedList(lastCall.stored, lastCall.scope, currentUnit)
          = lastCall.stored
    /\ ~modalHidden
    /\ flashcards = <<lastCall.stored[2], lastCall.stored[1]>>


\* C26: flipCard changes the front/back flag and nothing else of the session
\* (position, cards, stored review list, error log); it toggles the flag, so
\* a second flip restores it; a card presented by startReview or after an
\* answer is shown front side up.
FlipChangesFlagOnly ==
    [][/\ lastCall'.op = "flipCard"
             => /\ flashcardFlipped' = ~flashcardFlipped
                /\ flashcardIdx' = flashcardIdx
                /\ flashcards' = flashcards
                /\ reviewList' = reviewList
                /\ errors' = errors
                /\ modalHidden' = modalHidden
       /\ (lastCall'.op \in {"startReview", "answerCard"} /\ ~modalHidden')
             => ~flashcardFlipped']_vars

\* C26 witness: the second card of a session, turned over and back.
SecondCardFlippedBack ==
    /\ lastCall.op = "flipCard"
    /\ ~modalHidden
    /\ flashcardIdx = 1 /\ Len(flashcards) = 2
    /\ ~flashcardFlipped


\* C28: in app.js every read of the current card (showFlashcard,
\* showInlineFlashcard, flipInlineCard) happens at a position
\* 0 <= flashcardIdx < flashcards.length, whatever review sessions, inline
\* generations and inline prev/next/flip clicks came before.
CardReadsInRange ==
    /\ "read" \in DOMAIN lastCall
          => (0 <= lastCall.read /\ lastCall.read < Len(flashcards))
    /\ (lastCall.op \in {"startReview", "answerCard"} /\ ~modalHidden)
          => flashcardIdx < Len(flashcards)


-----------------------------------------------------------------------------
(* Properties of the Grammar page and of VocabularyPage *)

\* C29: when a grammar quiz is submitted, every question answered wrong is
\* appended to the persisted error history: after a submit with k wrong
\* answers the history holds all k new entries, at its end and in order,
\* of the most recent 50 entries.
EveryWrongAnswerRecorded ==
    [][lastCall'.op = "submit"
          => grammarErrors'
                = lastN(grammarErrors \o lastCall'.wrong, HistoryCap)]_vars


\* C30: a card of VocabularyPage is sent for review at most once while it is
\* presented: handleReview invoked while an earlier call for the card shown
\* still awaits the server does not send the card again; and a review call
\* that failed leaves the position and the card list as they were.
ReviewSentOncePerPresentation ==
    [][/\ lastCall'.op = "reviewFlashcard"
             => ~\E k \in 1 .. Len(inFlight) :
                    /\ inFlight[k].step = "review"
                    /\ inFlight[k].current
                    /\ inFlight[k].card_id = lastCall'.card_id
       /\ (lastCall'.op = "reviewReturned" /\ ~lastCall'.ok)
             => /\ currentIndex' = currentIndex
                /\ vpFlashcards' = vpFlashcards]_vars

=============================================================================
